---- MODULE Spec2Model ----
(***************************************************************************)
(* Model of the Quran subtitle processor (src/index.js and its variants).  *)
(*                                                                         *)
(* JavaScript values are tagged records.  A JavaScript number that is a    *)
(* time in seconds is held as an integer count of MILLISECONDS, so 7.5 s   *)
(* is Num(7500); the constant 5 of `index * 5` is therefore 5000 here, and *)
(* 3600, 60 and 1 of formatSRTTime are 3600000, 60000 and 1000.  A string  *)
(* is a sequence of one-character strings, "\n" being the line feed.       *)
(***************************************************************************)
EXTENDS Integers, Sequences, FiniteSets, TLC

VARIABLES
  fn,              \* the function under call: "generateSRT" or "formatSRTTime"
  callVerses,      \* argument `verses` of generateSRT
  callPreferences, \* argument `preferences` of generateSRT
  callSeconds,     \* argument `seconds` of formatSRTTime, in milliseconds
  result,          \* the value returned (or the error thrown); Undefined before
  pc,              \* "call" before the call, "returned" after it
  jobsDB,          \* the module-level job table: jobId -> job info
  s3,              \* the objects of the S3 bucket: key -> object
  mediaConvert,    \* the jobs of the MediaConvert service: Job.Id -> job
  uuids,           \* how many ids uuidv4 has handed out
  reqs,            \* the HTTP requests: slot -> handler state
  server           \* which of the four server files is running

callVars == <<fn, callVerses, callPreferences, callSeconds, result, pc>>
serverVars == <<jobsDB, s3, mediaConvert, uuids, reqs, server>>
vars == <<fn, callVerses, callPreferences, callSeconds, result, pc,
          jobsDB, s3, mediaConvert, uuids, reqs, server>>

(***************************************************************************)
(* Bounds of the model.                                                    *)
(***************************************************************************)
MaxVerses == 2
\* formatSRTTime is applied to every whole number of milliseconds up to this
MaxMillis == 1100
\* number of HTTP requests the server receives
MaxRequests == 2

(***************************************************************************)
(* JavaScript values and the coercions the code relies on.                 *)
(***************************************************************************)
Undefined == [t |-> "undefined"]
Null == [t |-> "null"]
Num(n) == [t |-> "number", v |-> n]
Str(s) == [t |-> "string", v |-> s]
TypeError == [t |-> "TypeError"]

\* ToBoolean, as used by `||` and by `&&`/`if`.
Truthy(x) ==
  CASE x.t = "undefined" -> FALSE
    [] x.t = "null" -> FALSE
    [] x.t = "number" -> x.v # 0
    [] x.t = "string" -> x.v # <<>>
    [] OTHER -> TRUE

\* a || b
Or(a, b) == IF Truthy(a) THEN a ELSE b

\* ToNumber of the operand of a numeric `+`: null is 0.
ToNumber(x) == IF x.t = "number" THEN x.v ELSE 0

\* a % b of JavaScript for integers, b > 0: the sign follows the dividend.
JsRem(a, b) == IF a >= 0 THEN a % b ELSE 0 - ((0 - a) % b)

Digit(d) == <<"0", "1", "2", "3", "4", "5", "6", "7", "8", "9">>[d + 1]

RECURSIVE Digits(_)
Digits(n) == IF n < 10 THEN <<Digit(n)>> ELSE Digits(n \div 10) \o <<Digit(n % 10)>>

\* Number.prototype.toString for an integer (-0 prints as "0").
toString(n) == IF n < 0 THEN <<"-">> \o Digits(0 - n) ELSE Digits(n)

\* String.prototype.padStart(targetLength, padString) with a one-character pad.
RECURSIVE padStart(_, _, _)
padStart(s, targetLength, padString) ==
  IF Len(s) >= targetLength THEN s
  ELSE padStart(<<padString>> \o s, targetLength, padString)

(***************************************************************************)
(* IEEE-754 double arithmetic of `Math.floor((seconds % 1) * 1000)`.       *)
(* seconds is the double nearest to a/1000 (a >= 0 an integer): s % 1 is   *)
(* exact, the product with 1000 is rounded to nearest, then floored.       *)
(***************************************************************************)
\* floor(log2(num/den)) for num, den > 0.
RECURSIVE FloorLog2(_, _)
FloorLog2(num, den) ==
  IF num >= 2 * den THEN 1 + FloorLog2(num, 2 * den)
  ELSE IF num < den THEN FloorLog2(2 * num, den) - 1
  ELSE 0

\* 2^k mod m.
RECURSIVE Pow2Mod(_, _)
Pow2Mod(k, m) == IF k = 0 THEN 1 % m ELSE (2 * Pow2Mod(k - 1, m)) % m

RECURSIVE Pow2(_)
Pow2(k) == IF k = 0 THEN 1 ELSE 2 * Pow2(k - 1)

\* The 53-bit significand of the double nearest to a/1000 is
\* round(a * 2^k / 1000) with k = 52 - floor(log2(a/1000)); r is the part of
\* a * 2^k / 1000 (in thousandths) that the rounding drops (r < 500) or tops
\* up (r > 500); a tie (r = 500) cannot occur.
RoundOff(a) == ((a % 1000) * Pow2Mod(52 - FloorLog2(a, 1000), 1000)) % 1000

\* Math.floor((seconds % 1) * 1000) for seconds = a/1000 >= 0.
FloorFrac(a) ==
  LET f == a % 1000
      e == FloorLog2(a, 1000)
      r == RoundOff(a)
      \* binary exponent of the doubles just below f
      eb == IF f = 1 THEN 0 - 1 ELSE FloorLog2(2 * f - 1, 2)
      x == eb - 1 - e
  IN IF f = 0 \/ r = 0 \/ r > 500 THEN f
     ELSE IF x >= 0 /\ r <= Pow2(x) THEN f
     ELSE f - 1

\* -Math.floor(-((seconds % 1) * 1000)) for seconds = a/1000 >= 0, i.e. the
\* magnitude of Math.floor((s % 1) * 1000) for the negative time s = -a/1000.
CeilFrac(a) ==
  LET f == a % 1000
      e == FloorLog2(a, 1000)
      r == RoundOff(a)
      x == FloorLog2(f, 1) - 1 - e
  IN IF f = 0 \/ r = 0 \/ r < 500 THEN f
     ELSE IF x >= 0 /\ 1000 - r <= Pow2(x) THEN f
     ELSE f + 1

(***************************************************************************)
(* formatSRTTime(seconds), seconds in milliseconds.                        *)
(***************************************************************************)
formatSRTTime(seconds) ==
  LET hours == seconds \div 3600000
      minutes == JsRem(seconds, 3600000) \div 60000
      secs == JsRem(seconds, 60000) \div 1000
      ms == IF seconds >= 0 THEN FloorFrac(seconds) ELSE 0 - CeilFrac(0 - seconds)
  IN padStart(toString(hours), 2, "0") \o <<":">>
       \o padStart(toString(minutes), 2, "0") \o <<":">>
       \o padStart(toString(secs), 2, "0") \o <<",">>
       \o padStart(toString(ms), 3, "0")

(***************************************************************************)
(* generateSRT(verses, preferences): the document, or the TypeError that   *)
(* reading a property of undefined/null throws.                            *)
(***************************************************************************)
IsObject(x) == x.t = "object"

\* The string literals 'arabic', 'translation' and 'both'.
ARABIC == Str(<<"a", "r", "a", "b", "i", "c">>)
TRANSLATION == Str(<<"t", "r", "a", "n", "s", "l", "a", "t", "i", "o", "n">>)
BOTH == Str(<<"b", "o", "t", "h">>)

\* the text a template literal `${x}` inserts for a string (or '' default)
Text(x) == IF x.t = "string" THEN x.v ELSE <<>>

\* startTimeOf with the offset left out
startTimeOf_NoOffset(verse, index, offset) ==
  ToNumber(IF verse.startTime # Undefined THEN verse.startTime
           ELSE Num(index * 5000))

\* const startTime = (verse.startTime !== undefined ? verse.startTime : index * 5) + offset
startTimeOf(verse, index, offset) ==
  ToNumber(IF verse.startTime # Undefined THEN verse.startTime
           ELSE Num(index * 5000)) + offset

\* const endTime = (verse.endTime !== undefined ? verse.endTime : (index + 1) * 5) + offset
endTimeOf(verse, index, offset) ==
  ToNumber(IF verse.endTime # Undefined THEN verse.endTime
           ELSE Num((index + 1) * 5000)) + offset

\* cueNumber printing the 0-based index
cueNumber_ZeroBased(index) == toString(index) \o <<"\n">>

\* srtContent += `${index + 1}\n`
cueNumber(index) == toString(index + 1) \o <<"\n">>

\* srtContent += `${formatSRTTime(startTime)} --> ${formatSRTTime(endTime)}\n`
timeLine(startTime, endTime) ==
  formatSRTTime(startTime) \o <<" ", "-", "-", ">", " ">>
    \o formatSRTTime(endTime) \o <<"\n">>

\* arabicLine that skips the line of a verse without Arabic text
arabicLine_SkipEmpty(verse, display) ==
  IF display # TRANSLATION /\ Truthy(verse.arabic)
  THEN Text(verse.arabic) \o <<"\n">>
  ELSE <<>>

\* if (display !== 'translation') srtContent += `${verse.arabic || ''}\n`
arabicLine(verse, display) ==
  IF display # TRANSLATION THEN Text(Or(verse.arabic, Str(<<>>))) \o <<"\n">>
  ELSE <<>>

\* translationLine that does not look at display
translationLine_NoFilter(verse, display) ==
  IF Truthy(verse.translation)
  THEN Text(verse.translation) \o <<"\n">>
  ELSE <<>>

\* if (display !== 'arabic' && verse.translation) srtContent += `${verse.translation}\n`
translationLine(verse, display) ==
  IF display # ARABIC /\ Truthy(verse.translation)
  THEN Text(verse.translation) \o <<"\n">>
  ELSE <<>>

\* The body of the forEach callback: the text appended for one verse.
verseCue(verse, index, offset, display) ==
  cueNumber(index)
    \o timeLine(startTimeOf(verse, index, offset), endTimeOf(verse, index, offset))
    \o arabicLine(verse, display)
    \o translationLine(verse, display)
    \o <<"\n">>

\* forEach whose callback dereferences verse.arabic (as verse.arabic.trim()
\* would), so a verse without arabic throws
RECURSIVE forEach_DerefArabic(_, _, _, _, _)
forEach_DerefArabic(verses, index, offset, display, srtContent) ==
  IF index >= Len(verses) THEN Str(srtContent)
  ELSE IF ~IsObject(verses[index + 1]) THEN TypeError
  ELSE IF verses[index + 1].arabic = Undefined THEN TypeError
  ELSE forEach_DerefArabic(verses, index + 1, offset, display,
               srtContent \o verseCue(verses[index + 1], index, offset, display))

\* verses.forEach((verse, index) => ...) from position index on; reading a
\* property of a verse that is undefined or null throws.
RECURSIVE forEach(_, _, _, _, _)
forEach(verses, index, offset, display, srtContent) ==
  IF index >= Len(verses) THEN Str(srtContent)
  ELSE IF ~IsObject(verses[index + 1]) THEN TypeError
  ELSE forEach(verses, index + 1, offset, display,
               srtContent \o verseCue(verses[index + 1], index, offset, display))

\* generateSRT whose timing runs on from module state: every job already in
\* jobsDB shifts the cues by one slot
generateSRT_ModuleState(verses, preferences) ==
  IF ~IsObject(preferences) THEN TypeError
  ELSE LET offset == Or(preferences.subtitleOffset, Num(0))
           display == Or(preferences.lang, Or(preferences.display, BOTH))
       IN forEach(verses, 0, ToNumber(offset) + 5000 * Cardinality(DOMAIN jobsDB),
                  display, <<>>)

\* generateSRT that opens the document with a font tag when a size is asked for
generateSRT_FontTag(verses, preferences) ==
  IF ~IsObject(preferences) THEN TypeError
  ELSE LET offset == Or(preferences.subtitleOffset, Num(0))
           display == Or(preferences.lang, Or(preferences.display, BOTH))
       IN forEach(verses, 0, ToNumber(offset), display,
                  IF Truthy(preferences.fontSize)
                  THEN <<"<", "f", "o", "n", "t", ">", "\n">> ELSE <<>>)

generateSRT(verses, preferences) ==
  IF ~IsObject(preferences) THEN TypeError
  ELSE LET offset == Or(preferences.subtitleOffset, Num(0))
           display == Or(preferences.lang, Or(preferences.display, BOTH))
       IN forEach(verses, 0, ToNumber(offset), display, <<>>)

\* The second copy of generateSRT in src/index.js (lines 485-508): it tests
\* preferences.display itself and never reads preferences.lang.
generateSRT_2(verses, preferences) ==
  IF ~IsObject(preferences) THEN TypeError
  ELSE LET offset == Or(preferences.subtitleOffset, Num(0))
       IN forEach(verses, 0, ToNumber(offset), preferences.display, <<>>)

\* The copies in src/unnamed/part_000 (lines 161-185) and src/unnamed/part_001
\* (lines 235-259) are the text of the first copy, character for character.
generateSRT_part_000(verses, preferences) == generateSRT(verses, preferences)
generateSRT_part_001(verses, preferences) == generateSRT(verses, preferences)

(***************************************************************************)
(* The inputs the functions are called with.  Every time and offset given  *)
(* to generateSRT is a multiple of 1/2 second, so the sums `time + offset` *)
(* and `index * 5 + offset` are exact in doubles; formatSRTTime is also    *)
(* called on its own with whole millisecond counts such as 1.001 s.        *)
(***************************************************************************)
Verse(startTime, endTime, arabic, translation) ==
  [t |-> "object", startTime |-> startTime, endTime |-> endTime,
   arabic |-> arabic, translation |-> translation]

Preferences(subtitleOffset, lang, display, fontSize, opacity) ==
  [t |-> "object", subtitleOffset |-> subtitleOffset, lang |-> lang,
   display |-> display, fontSize |-> fontSize, opacity |-> opacity]

SeqsUpTo(S, n) == UNION {[1..k -> S] : k \in 0..n}

ArabicText == Str(<<"A", "l", " ", "B">>)
TranslationText == Str(<<"t", "h", "e">>)

\* explicit times: absent, null, 0, 7.5 s, -1 s, 100 h
StartTimes == {Undefined, Null, Num(0), Num(7500), Num(0 - 1000), Num(360000000)}
EndTimes == {Undefined, Null, Num(0), Num(9000)}
\* subtitleOffset: absent, 0, 2 s, -1 s, 0.5 s
Offsets == {Undefined, Num(0), Num(2000), Num(0 - 1000), Num(500)}
Displays == {Undefined, ARABIC, TRANSLATION, BOTH}
FontSizes == {Undefined, Str(<<"s", "m", "a", "l", "l">>), Str(<<"l", "a", "r", "g", "e">>)}
Opacities == {Undefined, Str(<<"h", "i", "g", "h">>)}

TimedVerses == {Verse(st, en, ArabicText, TranslationText) : st \in StartTimes, en \in EndTimes}
TextVerses == {Verse(Undefined, Undefined, ar, tr) :
                 ar \in {Undefined, Str(<<>>), ArabicText},
                 tr \in {Undefined, TranslationText}}

\* verse lists and preferences that vary in timing only
InitTiming ==
  /\ callVerses \in SeqsUpTo(TimedVerses, MaxVerses)
  /\ callPreferences \in {Preferences(off, Undefined, Undefined, Undefined, Undefined) :
                         off \in Offsets}

\* verse lists and preferences that vary in text layers and styling only
InitDisplay ==
  /\ callVerses \in SeqsUpTo(TextVerses, MaxVerses)
  /\ callPreferences \in {Preferences(off, lang, display, fontSize, opacity) :
                         off \in {Undefined, Num(2000)}, lang \in Displays,
                         display \in Displays, fontSize \in FontSizes,
                         opacity \in Opacities}

\* every optional field of a verse present or absent on its own, with
\* preferences that give nothing or everything
MixedVerses == {Verse(st, en, ar, tr) :
                  st \in {Undefined, Num(7500)}, en \in {Undefined, Num(9000)},
                  ar \in {Undefined, ArabicText}, tr \in {Undefined, TranslationText}}

InitMixed ==
  /\ callVerses \in SeqsUpTo(MixedVerses, MaxVerses)
  /\ callPreferences \in
       {Preferences(Undefined, Undefined, Undefined, Undefined, Undefined),
        Preferences(Num(500), BOTH, TRANSLATION, Str(<<"s", "m", "a", "l", "l">>),
                    Str(<<"h", "i", "g", "h">>))}

\* arguments that are not what the signature expects: no preferences object,
\* or a verse list with a hole
InitMalformed ==
  \/ /\ callVerses \in SeqsUpTo(TextVerses, 1)
     /\ callPreferences \in {Undefined, Null}
  \/ /\ callVerses \in {<<v, Null>> : v \in TextVerses} \cup {<<Undefined>>}
     /\ callPreferences = Preferences(Undefined, Undefined, Undefined, Undefined, Undefined)

\* texts longer than 40 characters whose words are short: nine words of
\* four letters, 44 characters with the spaces between them
RECURSIVE WordsText(_, _)
WordsText(word, n) ==
  IF n = 1 THEN word ELSE WordsText(word, n - 1) \o <<" ">> \o word
LongArabic == Str(WordsText(<<"a", "y", "a", "h">>, 9))
LongTranslation == Str(WordsText(<<"w", "o", "r", "d">>, 9))

\* jobsDB while one job is stored
JobStored ==
  [k \in {1} |-> [mediaConvertJobId |-> <<"mc", 1>>, status |-> "PROCESSING",
                  outputUrl |-> Undefined]]

\* verses with long texts; generateSRT may be called while a job is stored
InitLong ==
  /\ callVerses \in {<<Verse(Undefined, Undefined, ar, tr)>> :
                       ar \in {ArabicText, LongArabic}, tr \in {TranslationText, LongTranslation}}
  /\ callPreferences \in {Preferences(Undefined, Undefined, d, Undefined, Undefined) :
                            d \in Displays}

SecondsValues ==
  (0..MaxMillis) \cup {59999, 60000, 3599999, 3600000, 3725250, 359999999}

EmptyMap == [k \in {} |-> Undefined]

\* a request slot no request has arrived in
IdleRequest ==
  [route |-> "none", at |-> "idle", body |-> Undefined, param |-> 0, jobId |-> 0,
   srtContent |-> Undefined, mediaConvertJobId |-> 0, response |-> Undefined]

\* the module state around a call of one of the two functions, jobsDB apart
ServerStart ==
  /\ s3 = EmptyMap
  /\ mediaConvert = EmptyMap
  /\ uuids = 0
  /\ reqs = [r \in 1..MaxRequests |-> IdleRequest]
  /\ server = "index_1"

Init ==
  /\ ServerStart
  /\ pc = "call"
  /\ result = Undefined
  /\ \/ /\ fn = "generateSRT"
        /\ callSeconds = 0
        /\ \/ /\ jobsDB = EmptyMap
              /\ (InitTiming \/ InitDisplay \/ InitMixed \/ InitMalformed)
           \/ /\ jobsDB \in {EmptyMap, JobStored}
              /\ InitLong
     \/ /\ fn = "formatSRTTime"
        /\ jobsDB = EmptyMap
        /\ callSeconds \in SecondsValues
        /\ callVerses = <<>>
        /\ callPreferences = Undefined

\* versesAfter as it would be with the defaults stored into the verse
\* (verse.startTime = index * 5 where the verse has none)
versesAfter_StoreDefaults(verses) ==
  [i \in 1..Len(verses) |->
     IF IsObject(verses[i]) /\ verses[i].startTime = Undefined
     THEN [verses[i] EXCEPT !.startTime = Num((i - 1) * 5000)]
     ELSE verses[i]]

\* the caller's verse list once generateSRT has returned: the callback of
\* lines 213-229 reads verse.startTime, endTime, arabic and translation into
\* locals and assigns to no property of verse, of verses or of preferences
versesAfter(verses) == verses

CallGenerateSRT ==
  /\ pc = "call"
  /\ fn = "generateSRT"
  /\ result' = generateSRT(callVerses, callPreferences)
  /\ callVerses' = versesAfter(callVerses)
  /\ pc' = "returned"
  /\ UNCHANGED <<fn, callPreferences, callSeconds>>
  /\ UNCHANGED serverVars

CallFormatSRTTime ==
  /\ pc = "call"
  /\ fn = "formatSRTTime"
  /\ result' = Str(formatSRTTime(callSeconds))
  /\ pc' = "returned"
  /\ UNCHANGED <<fn, callVerses, callPreferences, callSeconds>>
  /\ UNCHANGED serverVars

Next == CallGenerateSRT \/ CallFormatSRTTime

Spec == Init /\ [][Next]_vars

(***************************************************************************)
(* The HTTP server.  The repository holds four versions of it:             *)
(*   "index_1"   src/index.js lines 1-324                                  *)
(*   "index_2"   src/index.js lines 326-599                                *)
(*   "part_000"  src/unnamed/part_000                                      *)
(*   "part_001"  src/unnamed/part_001                                      *)
(* A handler runs from one await to the next in one step; the step that    *)
(* resumes it after an await carries the outcome of the awaited call       *)
(* (done, or rejected).  Line numbers in the comments are those of         *)
(* "index_1" unless a file is named.                                       *)
(***************************************************************************)
Servers == {"index_1", "index_2", "part_000", "part_001"}

Arr(s) == [t |-> "array", v |-> s]
IsArray(x) == x.t = "array"

Body(videoUrl, verses, subtitlePreferences, subtitleOffset) ==
  [t |-> "object", videoUrl |-> videoUrl, verses |-> verses,
   subtitlePreferences |-> subtitlePreferences, subtitleOffset |-> subtitleOffset]

VideoUrl == Str(<<"u">>)
OneVerse == <<Verse(Undefined, Undefined, ArabicText, TranslationText)>>
TwoVerses == <<Verse(Num(0), Num(2000), ArabicText, Undefined),
               Verse(Undefined, Undefined, Undefined, TranslationText)>>

\* the bodies POST /process is sent: well-formed ones, and one for each way
\* the validation of line 42 rejects
ProcessBodies ==
  {Body(VideoUrl, Arr(OneVerse), Undefined, Undefined),
   Body(VideoUrl, Arr(OneVerse),
        Preferences(Num(2000), Undefined, ARABIC, Undefined, Undefined), Undefined),
   Body(VideoUrl, Arr(TwoVerses),
        Preferences(Undefined, TRANSLATION, Undefined, Str(<<"l", "a", "r", "g", "e">>), Undefined),
        Num(2000)),
   Body(VideoUrl, Arr(<<Null>>), Undefined, Undefined),
   Body(Undefined, Arr(OneVerse), Undefined, Undefined),
   Body(VideoUrl, Undefined, Undefined, Undefined),
   Body(VideoUrl, Str(<<"v">>), Undefined, Undefined),
   Body(VideoUrl, Arr(<<>>), Undefined, Undefined)}

\* { ...subtitlePreferences, subtitleOffset: subtitleOffset || 0 }
SpreadPreferences(subtitlePreferences, subtitleOffset) ==
  [(IF IsObject(subtitlePreferences) THEN subtitlePreferences
    ELSE Preferences(Undefined, Undefined, Undefined, Undefined, Undefined))
   EXCEPT !.subtitleOffset = Or(subtitleOffset, Num(0))]

\* the preferences argument of the handler's generateSRT call:
\* "index_2" (line 381) passes subtitlePreferences || {}, the others the spread
preferencesArgument(file, body) ==
  IF file = "index_2"
  THEN Or(body.subtitlePreferences,
          Preferences(Undefined, Undefined, Undefined, Undefined, Undefined))
  ELSE SpreadPreferences(body.subtitlePreferences, body.subtitleOffset)

\* calling a function that is defined nowhere in the file
ReferenceError == [t |-> "ReferenceError"]

\* isInvalidRequest without the test for an empty array
isInvalidRequest_NoLengthTest(body) ==
  \/ ~Truthy(body.videoUrl)
  \/ ~Truthy(body.verses)
  \/ ~IsArray(body.verses)

\* if (!videoUrl || !verses || !Array.isArray(verses) || verses.length === 0)
isInvalidRequest(body) ==
  \/ ~Truthy(body.videoUrl)
  \/ ~Truthy(body.verses)
  \/ ~IsArray(body.verses)
  \/ Len(body.verses.v) = 0

\* subtitleContent as it would be with generateASS and srtKey defined in
\* "part_001"
subtitleContent_Defined(file, body) ==
  IF file = "index_2"
  THEN generateSRT_2(body.verses.v, preferencesArgument(file, body))
  ELSE generateSRT(body.verses.v, preferencesArgument(file, body))

\* the document the handler holds when it reaches its first await:
\* generateSRT(...); in "part_001" the handler calls generateASS (line 57)
\* and then reads srtKey (line 62), neither of which is defined in the file,
\* so it throws a ReferenceError before the await
subtitleContent(file, body) ==
  IF file = "index_2"
  THEN generateSRT_2(body.verses.v, preferencesArgument(file, body))
  ELSE IF file = "part_001" THEN ReferenceError
  ELSE generateSRT(body.verses.v, preferencesArgument(file, body))

\* res.status(code).json({success, status, progress, outputUrl}); a field the
\* response does not carry is Undefined
Response(code, success, status, progress, outputUrl) ==
  [code |-> code, success |-> success, status |-> status, progress |-> progress,
   outputUrl |-> outputUrl]

\* the catch blocks: res.status(500).json({success: false, error})
ServerError == Response(500, FALSE, "", Undefined, Undefined)

Respond(r, response) ==
  reqs' = [reqs EXCEPT ![r].at = "done", ![r].response = response]

MapPut(map, key, value) ==
  [k \in DOMAIN map \cup {key} |-> IF k = key THEN value ELSE map[k]]

srtKeyOf(jobId) == <<"subtitles", jobId>>
videoKeyOf(jobId) == <<"inputs", jobId>>
outputKeyOf(jobId) == <<"outputs", jobId>>

\* createMediaConvertParams with the output key as the caption source
createMediaConvertParams_WrongSource(videoUrl, srtKey, outputKey, preferences) ==
  [FileInput |-> videoUrl, SourceFile |-> outputKey, Destination |-> outputKey]

\* createMediaConvertParams(videoUrl, srtKey, outputKey, preferences)
createMediaConvertParams(videoUrl, srtKey, outputKey, preferences) ==
  [FileInput |-> videoUrl, SourceFile |-> srtKey, Destination |-> outputKey]

\* app.post('/process'): from the arrival to the first await (lines 38-64)
PostProcess(r, body) ==
  /\ reqs[r].at = "idle"
  /\ r > 1 => reqs[r - 1].at # "idle"
  /\ IF isInvalidRequest(body)
     THEN /\ reqs' = [reqs EXCEPT ![r] =
                 [@ EXCEPT !.route = "process", !.body = body, !.at = "done",
                           !.response = Response(400, FALSE, "", Undefined, Undefined)]]
          /\ UNCHANGED uuids
     ELSE LET jobId == uuids + 1
              srtContent == subtitleContent(server, body)
          IN /\ uuids' = jobId
             /\ reqs' = [reqs EXCEPT ![r] =
                  IF srtContent.t # "string"
                  THEN [@ EXCEPT !.route = "process", !.body = body, !.jobId = jobId,
                                 !.at = "done", !.response = ServerError]
                  ELSE [@ EXCEPT !.route = "process", !.body = body, !.jobId = jobId,
                                 !.srtContent = srtContent, !.at = "putSrt"]]
  /\ UNCHANGED <<jobsDB, s3, mediaConvert, server>>
  /\ UNCHANGED callVars

\* await s3.putObject({Key: srtKey, Body: srtContent}) (lines 64-75); then
\* "index_1" and "part_001" fetch the video, "index_2" (line 399) and
\* "part_000" (line 74) go on to createJob
PutSrtDone(r) ==
  /\ reqs[r].at = "putSrt"
  /\ \/ /\ s3' = MapPut(s3, srtKeyOf(reqs[r].jobId), reqs[r].srtContent)
        /\ reqs' = [reqs EXCEPT ![r].at =
                      IF server \in {"index_2", "part_000"} THEN "createJob" ELSE "fetch"]
     \/ /\ Respond(r, ServerError)
        /\ UNCHANGED s3
  /\ UNCHANGED <<jobsDB, mediaConvert, uuids, server>>
  /\ UNCHANGED callVars

\* await fetch(videoUrl); if (!videoResponse.ok) throw (lines 75-81)
FetchDone(r) ==
  /\ reqs[r].at = "fetch"
  /\ \/ reqs' = [reqs EXCEPT ![r].at = "arrayBuffer"]
     \/ Respond(r, ServerError)
  /\ UNCHANGED <<jobsDB, s3, mediaConvert, uuids, server>>
  /\ UNCHANGED callVars

\* await videoResponse.arrayBuffer() (lines 81-88)
ArrayBufferDone(r) ==
  /\ reqs[r].at = "arrayBuffer"
  /\ \/ reqs' = [reqs EXCEPT ![r].at = "putVideo"]
     \/ Respond(r, ServerError)
  /\ UNCHANGED <<jobsDB, s3, mediaConvert, uuids, server>>
  /\ UNCHANGED callVars

\* await s3.putObject({Key: videoKey, ...}) (lines 88-105); in "part_001"
\* the call of createMediaConvertParams that follows (line 102) reads srtKey,
\* which is not defined there, and throws
PutVideoDone(r) ==
  /\ reqs[r].at = "putVideo"
  /\ \/ /\ s3' = MapPut(s3, videoKeyOf(reqs[r].jobId), Str(<<"m", "p", "4">>))
        /\ IF server = "part_001" THEN Respond(r, ServerError)
           ELSE reqs' = [reqs EXCEPT ![r].at = "createJob"]
     \/ /\ Respond(r, ServerError)
        /\ UNCHANGED s3
  /\ UNCHANGED <<jobsDB, mediaConvert, uuids, server>>
  /\ UNCHANGED callVars

\* Job.Id of the n-th job MediaConvert creates
mediaConvertIdOf(n) == <<"mc", n>>

\* the FileInput of the job: the uploaded copy in "index_1" (line 98), the
\* request's videoUrl in "index_2" (line 399) and "part_000" (line 74)
fileInputOf(file, jobId, body) ==
  IF file \in {"index_2", "part_000"} THEN body.videoUrl ELSE videoKeyOf(jobId)

\* CreateJobDone that records the job in jobsDB also when createJob rejects
CreateJobDone_StoreOnFailure(r) ==
  /\ reqs[r].at = "createJob"
  /\ \/ LET jobId == reqs[r].jobId
            id == mediaConvertIdOf(Cardinality(DOMAIN mediaConvert) + 1)
            params == createMediaConvertParams(fileInputOf(server, jobId, reqs[r].body),
                                               srtKeyOf(jobId), outputKeyOf(jobId),
                                               Or(reqs[r].body.subtitlePreferences,
                                                  Preferences(Undefined, Undefined, Undefined,
                                                              Undefined, Undefined)))
        IN /\ mediaConvert' = MapPut(mediaConvert, id, [Status |-> "SUBMITTED", Settings |-> params])
           /\ jobsDB' = MapPut(jobsDB, jobId,
                               [mediaConvertJobId |-> id, status |-> "PROCESSING",
                                outputUrl |-> Undefined])
           /\ Respond(r, Response(200, TRUE, "processing", Undefined, Undefined))
     \/ /\ Respond(r, ServerError)
        /\ jobsDB' = MapPut(jobsDB, reqs[r].jobId,
                            [mediaConvertJobId |-> mediaConvertIdOf(0), status |-> "PROCESSING",
                             outputUrl |-> Undefined])
        /\ UNCHANGED mediaConvert
  /\ UNCHANGED <<s3, uuids, server>>
  /\ UNCHANGED callVars

\* await mediaConvert.createJob(params); jobsDB[jobId] = {...}; res.json (lines 105-119)
\* (the entry's `created` timestamp is written and never read; it is left out)
CreateJobDone(r) ==
  /\ reqs[r].at = "createJob"
  /\ \/ LET jobId == reqs[r].jobId
            id == mediaConvertIdOf(Cardinality(DOMAIN mediaConvert) + 1)
            params == createMediaConvertParams(fileInputOf(server, jobId, reqs[r].body),
                                               srtKeyOf(jobId), outputKeyOf(jobId),
                                               Or(reqs[r].body.subtitlePreferences,
                                                  Preferences(Undefined, Undefined, Undefined,
                                                              Undefined, Undefined)))
        IN /\ mediaConvert' = MapPut(mediaConvert, id, [Status |-> "SUBMITTED", Settings |-> params])
           /\ jobsDB' = MapPut(jobsDB, jobId,
                               [mediaConvertJobId |-> id, status |-> "PROCESSING",
                                outputUrl |-> Undefined])
           /\ Respond(r, Response(200, TRUE, "processing", Undefined, Undefined))
     \/ /\ Respond(r, ServerError)
        /\ UNCHANGED <<jobsDB, mediaConvert>>
  /\ UNCHANGED <<s3, uuids, server>>
  /\ UNCHANGED callVars

\* app.get('/status/:jobId'): from the arrival to the first await (lines 130-147)
GetStatus(r, jobId) ==
  /\ reqs[r].at = "idle"
  /\ r > 1 => reqs[r - 1].at # "idle"
  /\ reqs' = [reqs EXCEPT ![r] =
       IF jobId \notin DOMAIN jobsDB
       THEN [@ EXCEPT !.route = "status", !.param = jobId, !.at = "done",
                      !.response = Response(404, FALSE, "", Undefined, Undefined)]
       ELSE [@ EXCEPT !.route = "status", !.param = jobId, !.at = "getJob",
                      !.mediaConvertJobId = jobsDB[jobId].mediaConvertJobId]]
  /\ UNCHANGED <<jobsDB, s3, mediaConvert, uuids, server>>
  /\ UNCHANGED callVars

\* status.toLowerCase()
toLowerCase(status) ==
  CASE status = "SUBMITTED" -> "submitted"
    [] status = "PROGRESSING" -> "progressing"
    [] status = "CANCELED" -> "canceled"
    [] status = "COMPLETE" -> "complete"
    [] status = "ERROR" -> "error"

\* the pre-signed URL of "index_1" (line 163), the public URL of "index_2"
\* (line 451) and "part_000" (line 126)
signedUrlOf(jobId) == Str(<<"signed", jobId>>)
publicUrlOf(jobId) == Str(<<"public", jobId>>)

\* let progress = 0; if (status === 'SUBMITTED') progress = 5;
\* else if (status === 'PROGRESSING') progress = 50
progressOf(status) ==
  IF status = "SUBMITTED" THEN Num(5)
  ELSE IF status = "PROGRESSING" THEN Num(50) ELSE Num(0)

\* the `progress` of the response to a COMPLETE job where no URL is signed:
\* 100 in "part_000" (line 137), none in "index_2" (lines 459-463)
completeProgressOf(file) == IF file = "index_2" THEN Undefined ELSE Num(100)

\* await mediaConvert.getJob({Id}); the branches on Job.Status (lines 147-197).
\* On COMPLETE "index_1" and "part_001" await a signed URL ("part_001" after
\* s3.listObjectsV2, lines 172-199 there, touching no module state in between);
\* "index_2" and "part_000" build a public URL and update jobsDB at once.
\* Only "index_1" has the ERROR branch (lines 177-187).
GetJobDone(r) ==
  /\ reqs[r].at = "getJob"
  /\ \/ LET status == mediaConvert[reqs[r].mediaConvertJobId].Status
            jobId == reqs[r].param
        IN IF status = "COMPLETE"
           THEN IF server \in {"index_2", "part_000"}
                THEN /\ jobsDB' = [jobsDB EXCEPT ![jobId].status = "COMPLETE",
                                                 ![jobId].outputUrl = publicUrlOf(jobId)]
                     /\ Respond(r, Response(200, TRUE, "complete",
                                            completeProgressOf(server), publicUrlOf(jobId)))
                ELSE /\ reqs' = [reqs EXCEPT ![r].at = "getSignedUrl"]
                     /\ UNCHANGED jobsDB
           ELSE IF status = "ERROR" /\ server = "index_1"
           THEN /\ Respond(r, Response(200, FALSE, "failed", Undefined, Undefined))
                /\ UNCHANGED jobsDB
           ELSE /\ Respond(r, Response(200, TRUE, toLowerCase(status),
                                       progressOf(status), Undefined))
                /\ UNCHANGED jobsDB
     \/ /\ Respond(r, ServerError)
        /\ UNCHANGED jobsDB
  /\ UNCHANGED <<s3, mediaConvert, uuids, server>>
  /\ UNCHANGED callVars

\* GetSignedUrlDone that marks the job COMPLETE also when the signing rejects
GetSignedUrlDone_MarkOnFailure(r) ==
  /\ reqs[r].at = "getSignedUrl"
  /\ \/ LET url == signedUrlOf(reqs[r].param)
        IN /\ jobsDB' = [jobsDB EXCEPT ![reqs[r].param].status = "COMPLETE",
                                       ![reqs[r].param].outputUrl = url]
           /\ Respond(r, Response(200, TRUE, "complete", Num(100), url))
     \/ /\ Respond(r, ServerError)
        /\ jobsDB' = [jobsDB EXCEPT ![reqs[r].param].status = "COMPLETE"]
  /\ UNCHANGED <<s3, mediaConvert, uuids, server>>
  /\ UNCHANGED callVars

\* await s3.getSignedUrlPromise(...); jobsDB[jobId].status = 'COMPLETE' (lines 163-176)
GetSignedUrlDone(r) ==
  /\ reqs[r].at = "getSignedUrl"
  /\ \/ LET url == signedUrlOf(reqs[r].param)
        IN /\ jobsDB' = [jobsDB EXCEPT ![reqs[r].param].status = "COMPLETE",
                                       ![reqs[r].param].outputUrl = url]
           /\ Respond(r, Response(200, TRUE, "complete", Num(100), url))
     \/ /\ Respond(r, ServerError)
        /\ UNCHANGED jobsDB
  /\ UNCHANGED <<s3, mediaConvert, uuids, server>>
  /\ UNCHANGED callVars

\* the MediaConvert service works on a job
MediaConvertProgress(id) ==
  /\ id \in DOMAIN mediaConvert
  /\ \E status \in {"PROGRESSING", "COMPLETE", "ERROR", "CANCELED"} :
       /\ \/ mediaConvert[id].Status = "SUBMITTED"
          \/ mediaConvert[id].Status = "PROGRESSING" /\ status # "PROGRESSING"
       /\ mediaConvert' = [mediaConvert EXCEPT ![id].Status = status]
  /\ UNCHANGED <<jobsDB, s3, uuids, reqs, server>>
  /\ UNCHANGED callVars

InitServer ==
  /\ jobsDB = EmptyMap
  /\ s3 = EmptyMap
  /\ mediaConvert = EmptyMap
  /\ uuids = 0
  /\ reqs = [r \in 1..MaxRequests |-> IdleRequest]
  /\ server \in Servers
  /\ fn = "server"
  /\ callVerses = <<>>
  /\ callPreferences = Undefined
  /\ callSeconds = 0
  /\ result = Undefined
  /\ pc = "serving"

NextServer ==
  \/ \E r \in 1..MaxRequests, body \in ProcessBodies : PostProcess(r, body)
  \/ \E r \in 1..MaxRequests : PutSrtDone(r)
  \/ \E r \in 1..MaxRequests : FetchDone(r)
  \/ \E r \in 1..MaxRequests : ArrayBufferDone(r)
  \/ \E r \in 1..MaxRequests : PutVideoDone(r)
  \/ \E r \in 1..MaxRequests : CreateJobDone(r)
  \/ \E r \in 1..MaxRequests, jobId \in 1..MaxRequests : GetStatus(r, jobId)
  \/ \E r \in 1..MaxRequests : GetJobDone(r)
  \/ \E r \in 1..MaxRequests : GetSignedUrlDone(r)
  \/ \E n \in 1..MaxRequests : MediaConvertProgress(mediaConvertIdOf(n))

SpecServer == InitServer /\ [][NextServer]_vars

\* The server once a first POST /process has been served: its document (and
\* in "index_1" its video) is in storage, its job is submitted and jobsDB
\* holds its entry; the requests that follow find that job stored.  ("part_001"
\* never stores a job.)
StoredBody == Body(VideoUrl, Arr(OneVerse), Undefined, Undefined)

InitStored ==
  /\ server \in Servers \ {"part_001"}
  /\ uuids = 1
  /\ s3 = IF server = "index_1"
          THEN MapPut(MapPut(EmptyMap, srtKeyOf(1), subtitleContent(server, StoredBody)),
                      videoKeyOf(1), Str(<<"m", "p", "4">>))
          ELSE MapPut(EmptyMap, srtKeyOf(1), subtitleContent(server, StoredBody))
  /\ mediaConvert =
       MapPut(EmptyMap, mediaConvertIdOf(1),
              [Status |-> "SUBMITTED",
               Settings |-> createMediaConvertParams(fileInputOf(server, 1, StoredBody),
                                                     srtKeyOf(1), outputKeyOf(1),
                                                     Preferences(Undefined, Undefined, Undefined,
                                                                 Undefined, Undefined))])
  /\ jobsDB = MapPut(EmptyMap, 1, [mediaConvertJobId |-> mediaConvertIdOf(1),
                                   status |-> "PROCESSING", outputUrl |-> Undefined])
  /\ reqs = [r \in 1..MaxRequests |-> IdleRequest]
  /\ fn = "server"
  /\ callVerses = <<>>
  /\ callPreferences = Undefined
  /\ callSeconds = 0
  /\ result = Undefined
  /\ pc = "serving"

SpecStored == InitStored /\ [][NextServer]_vars

(***************************************************************************)
(* Reading a returned document back: its lines, its time lines and the     *)
(* value a well-formed HH:MM:SS,mmm field stands for.                      *)
(***************************************************************************)
\* the positions of the line feeds of doc
LineFeeds(doc) == {k \in 1..Len(doc) : doc[k] = "\n"}

\* the i-th position of the set feeds, in increasing order (0 for i = 0)
LineFeed(feeds, i) ==
  IF i = 0 THEN 0
  ELSE CHOOSE k \in feeds : Cardinality({j \in feeds : j <= k}) = i

\* the lines of doc: what stands between two line feeds, and what follows
\* the last one if anything does
Lines(doc) ==
  LET feeds == LineFeeds(doc)
      n == Cardinality(feeds)
      at == [i \in 0..n |-> LineFeed(feeds, i)]
  IN [i \in 1..n |-> SubSeq(doc, at[i - 1] + 1, at[i] - 1)]
       \o (IF at[n] < Len(doc) THEN <<SubSeq(doc, at[n] + 1, Len(doc))>> ELSE <<>>)

Arrow == <<" ", "-", "-", ">", " ">>
ArrowAt(l) == {k \in 1..(Len(l) - 4) : SubSeq(l, k, k + 4) = Arrow}
IsTimeLine(l) == ArrowAt(l) # {}
FirstArrow(l) == CHOOSE k \in ArrowAt(l) : \A j \in ArrowAt(l) : k <= j
StartField(l) == SubSeq(l, 1, FirstArrow(l) - 1)
EndField(l) == SubSeq(l, FirstArrow(l) + 5, Len(l))
TimeLines(doc) == SelectSeq(Lines(doc), IsTimeLine)

IsDigit(c) == c \in {"0", "1", "2", "3", "4", "5", "6", "7", "8", "9"}
DigitVal(c) == CHOOSE d \in 0..9 : Digit(d) = c

\* exactly two digits, colon, two digits, colon, two digits, comma, three digits
IsSRTTime(f) ==
  /\ Len(f) = 12
  /\ \A k \in {1, 2, 4, 5, 7, 8, 10, 11, 12} : IsDigit(f[k])
  /\ f[3] = ":" /\ f[6] = ":" /\ f[9] = ","

\* the time, in milliseconds, a well-formed field denotes
ParseSRTTime(f) ==
  ((10 * DigitVal(f[1]) + DigitVal(f[2])) * 3600
     + (10 * DigitVal(f[4]) + DigitVal(f[5])) * 60
     + (10 * DigitVal(f[7]) + DigitVal(f[8]))) * 1000
  + 100 * DigitVal(f[10]) + 10 * DigitVal(f[11]) + DigitVal(f[12])

\* a field that is well formed and denotes the time ms
Shows(f, ms) == IsSRTTime(f) /\ ParseSRTTime(f) = ms

\* generateSRT has returned a document
GenReturned == fn = "generateSRT" /\ pc = "returned" /\ result.t = "string"

\* the offset the preferences ask for, 0 when none is given
OffsetOf(p) == IF p.subtitleOffset = Undefined THEN 0 ELSE p.subtitleOffset.v

\* the display the preferences ask for: lang if given, else display, else both
EffectiveDisplay(p) ==
  IF p.lang # Undefined THEN p.lang
  ELSE IF p.display # Undefined THEN p.display
  ELSE BOTH

NoTimes(verse) == verse.startTime = Undefined /\ verse.endTime = Undefined

(***************************************************************************)
(* C1: a verse at 0-based position i with neither startTime nor endTime    *)
(* gets start i*5 + offset and end (i+1)*5 + offset in the time line that  *)
(* generateSRT emits for it.                                               *)
(***************************************************************************)
C1_DefaultTiming ==
  GenReturned =>
    \A n \in 1..Len(callVerses) :
      NoTimes(callVerses[n]) =>
        LET start == (n - 1) * 5000 + OffsetOf(callPreferences)
            end == n * 5000 + OffsetOf(callPreferences)
            tl == TimeLines(result.v)
        IN /\ Len(tl) >= n
           /\ tl[n] = formatSRTTime(start) \o Arrow \o formatSRTTime(end)
           /\ (start >= 0 => Shows(StartField(tl[n]), start))
           /\ (end >= 0 => Shows(EndField(tl[n]), end))

\* Scenario C: offset 2, position 1, no times: start 7 and end 12
C1_Witness ==
  /\ GenReturned
  /\ Len(callVerses) = 2
  /\ NoTimes(callVerses[2])
  /\ callPreferences.subtitleOffset = Num(2000)
  /\ TimeLines(result.v)[2] =
       <<"0", "0", ":", "0", "0", ":", "0", "7", ",", "0", "0", "0">> \o Arrow
         \o <<"0", "0", ":", "0", "0", ":", "1", "2", ",", "0", "0", "0">>

(***************************************************************************)
(* C2: start is (startTime if present, else index*5) + offset and end is   *)
(* (endTime if present, else (index+1)*5) + offset, where 0 is present and *)
(* null and undefined are both absent (the `??` rule).                     *)
(***************************************************************************)
Nullish(x, default) == IF x = Undefined \/ x = Null THEN default ELSE x.v

C2_NullishTiming ==
  GenReturned =>
    \A n \in 1..Len(callVerses) :
      LET start == Nullish(callVerses[n].startTime, (n - 1) * 5000)
                     + OffsetOf(callPreferences)
          end == Nullish(callVerses[n].endTime, n * 5000)
                   + OffsetOf(callPreferences)
          tl == TimeLines(result.v)
      IN /\ Len(tl) >= n
         /\ tl[n] = formatSRTTime(start) \o Arrow \o formatSRTTime(end)

(***************************************************************************)
(* C3: per verse, in this order: the 1-based cue number; the time line;    *)
(* the Arabic line iff the effective display includes Arabic; the          *)
(* translation line iff the effective display includes translation and the *)
(* verse has a translation; one blank line.  Scenario A is the literal     *)
(* document of one verse with both texts.                                  *)
(***************************************************************************)
TimeMark == <<"<", "t", "i", "m", "e", ">">>

\* the lines with every time line replaced by a mark
Shape(doc) ==
  LET ls == Lines(doc)
  IN [k \in 1..Len(ls) |-> IF IsTimeLine(ls[k]) THEN TimeMark ELSE ls[k]]

IncludesArabic(d) == d = ARABIC \/ d = BOTH
IncludesTranslation(d) == d = TRANSLATION \/ d = BOTH
HasText(x) == x.t = "string" /\ x.v # <<>>

ExpectedCue(verse, n, d) ==
  <<toString(n), TimeMark>>
    \o (IF IncludesArabic(d) THEN <<Text(verse.arabic)>> ELSE <<>>)
    \o (IF IncludesTranslation(d) /\ HasText(verse.translation)
        THEN <<verse.translation.v>> ELSE <<>>)
    \o << <<>> >>

RECURSIVE ExpectedShape(_, _, _)
ExpectedShape(vs, n, d) ==
  IF n > Len(vs) THEN <<>>
  ELSE ExpectedCue(vs[n], n, d) \o ExpectedShape(vs, n + 1, d)

ScenarioA ==
  /\ callVerses = <<Verse(Undefined, Undefined, ArabicText, TranslationText)>>
  /\ callPreferences.subtitleOffset = Undefined
  /\ callPreferences.lang = Undefined
  /\ callPreferences.display = BOTH

C3_CueLayout ==
  GenReturned =>
    /\ Shape(result.v) = ExpectedShape(callVerses, 1, EffectiveDisplay(callPreferences))
    /\ ScenarioA =>
         Lines(result.v) =
           << <<"1">>,
              <<"0", "0", ":", "0", "0", ":", "0", "0", ",", "0", "0", "0">> \o Arrow
                \o <<"0", "0", ":", "0", "0", ":", "0", "5", ",", "0", "0", "0">>,
              ArabicText.v, TranslationText.v, <<>> >>

C3_Witness ==
  /\ GenReturned
  /\ ScenarioA
  /\ Len(Lines(result.v)) = 5

(***************************************************************************)
(* C4: a list of n verses gives exactly n cues, numbered 1, 2, ..., n in   *)
(* order, also when a verse has neither arabic nor translation.            *)
(***************************************************************************)
\* positions of the time lines in the document, ascending
RECURSIVE TimeLinePositions(_, _)
TimeLinePositions(ls, k) ==
  IF k > Len(ls) THEN <<>>
  ELSE (IF IsTimeLine(ls[k]) THEN <<k>> ELSE <<>>) \o TimeLinePositions(ls, k + 1)

C4_CueNumbering ==
  GenReturned =>
    LET ls == Lines(result.v)
        at == TimeLinePositions(ls, 1)
    IN /\ Len(at) = Len(callVerses)
       /\ \A n \in 1..Len(at) :
            /\ at[n] > 1
            /\ ls[at[n] - 1] = Digits(n)
            \* the number line opens the document or follows a blank line
            /\ (IF n = 1 THEN at[n] = 2 ELSE ls[at[n] - 2] = <<>>)
       \* nothing but the numbers and the separator is a line of digits
       /\ Cardinality({k \in 1..Len(ls) : ls[k] # <<>> /\ \A j \in 1..Len(ls[k]) : IsDigit(ls[k][j])})
            = Len(callVerses)

NoText(verse) == ~HasText(verse.arabic) /\ ~HasText(verse.translation)

\* an empty verse first, and the verse after it is still cue 2
C4_Witness ==
  /\ GenReturned
  /\ Len(callVerses) = 2
  /\ NoText(callVerses[1])
  /\ HasText(callVerses[2].arabic)
  /\ \E k \in 2..Len(Lines(result.v)) :
       Lines(result.v)[k - 1] = <<"2">> /\ IsTimeLine(Lines(result.v)[k])

(***************************************************************************)
(* C5: with display 'arabic' no translation text of any verse is in the    *)
(* document, with display 'translation' no Arabic text; with lang and      *)
(* display both absent both layers are there.                              *)
(***************************************************************************)
LineSet(doc) == LET ls == Lines(doc) IN {ls[k] : k \in 1..Len(ls)}
ArabicTexts == {callVerses[n].arabic.v : n \in {m \in 1..Len(callVerses) : HasText(callVerses[m].arabic)}}
TranslationTexts ==
  {callVerses[n].translation.v : n \in {m \in 1..Len(callVerses) : HasText(callVerses[m].translation)}}

FieldValue(f, from, to) ==
  IF to - from = 1 THEN 10 * DigitVal(f[from]) + DigitVal(f[to])
  ELSE 100 * DigitVal(f[from]) + 10 * DigitVal(f[from + 1]) + DigitVal(f[to])

C6_FloorComponents ==
  (fn = "formatSRTTime" /\ pc = "returned" /\ callSeconds >= 0) =>
    /\ IsSRTTime(result.v)
    /\ FieldValue(result.v, 1, 2) = callSeconds \div 3600000
    /\ FieldValue(result.v, 4, 5) = (callSeconds % 3600000) \div 60000
    /\ FieldValue(result.v, 7, 8) = (callSeconds % 60000) \div 1000
    /\ FieldValue(result.v, 10, 12) = callSeconds % 1000

(***************************************************************************)
(* C7: every time line generateSRT emits has exactly the shape             *)
(* HH:MM:SS,mmm --> HH:MM:SS,mmm, also for negative offsets, negative      *)
(* explicit times and times of 100 hours or more.                          *)
(***************************************************************************)
C7_TimeLineShape ==
  GenReturned =>
    \A n \in 1..Len(TimeLines(result.v)) :
      /\ IsSRTTime(StartField(TimeLines(result.v)[n]))
      /\ IsSRTTime(EndField(TimeLines(result.v)[n]))

(***************************************************************************)
(* C9: the document does not depend on styling preferences: changing       *)
(* fontSize or opacity, with subtitleOffset, lang and display kept, gives  *)
(* the same document.                                                      *)
(***************************************************************************)
C9_StylingIgnored ==
  GenReturned =>
    \A fontSize \in FontSizes, opacity \in Opacities :
      generateSRT(callVerses,
                  [callPreferences EXCEPT !.fontSize = fontSize, !.opacity = opacity])
        = result

C9_Witness ==
  /\ GenReturned
  /\ Len(callVerses) = 2
  /\ Truthy(callPreferences.fontSize)
  /\ Truthy(callPreferences.opacity)
  /\ result = generateSRT(callVerses,
                          [callPreferences EXCEPT !.fontSize = Undefined, !.opacity = Undefined])

(***************************************************************************)
(* C10: generateSRT never throws on missing optional fields: for verse     *)
(* objects and a preferences object with any of their optional fields      *)
(* absent it returns a document, the one the documented defaults give      *)
(* (start index*5, end (index+1)*5, offset 0, display 'both').             *)
(***************************************************************************)
WellFormedCall ==
  /\ IsObject(callPreferences)
  /\ \A n \in 1..Len(callVerses) : IsObject(callVerses[n])

IfAbsent(x, default) == IF x = Undefined THEN default ELSE x

VersesWithDefaults ==
  [n \in 1..Len(callVerses) |->
     [callVerses[n] EXCEPT !.startTime = IfAbsent(@, Num((n - 1) * 5000)),
                           !.endTime = IfAbsent(@, Num(n * 5000))]]

PreferencesWithDefaults ==
  [callPreferences EXCEPT !.subtitleOffset = IfAbsent(@, Num(0)),
                          !.lang = Undefined,
                          !.display = EffectiveDisplay(callPreferences)]

C10_NoThrowOnMissing ==
  (fn = "generateSRT" /\ pc = "returned" /\ WellFormedCall) =>
    /\ result.t = "string"
    /\ result = generateSRT(VersesWithDefaults, PreferencesWithDefaults)

\* every optional field of the call is absent
C10_Witness ==
  /\ GenReturned
  /\ Len(callVerses) = 2
  /\ \A n \in 1..2 : NoTimes(callVerses[n]) /\ callVerses[n].arabic = Undefined
                       /\ callVerses[n].translation = Undefined
  /\ callPreferences = Preferences(Undefined, Undefined, Undefined, Undefined, Undefined)
  /\ Len(Lines(result.v)) = 8

(***************************************************************************)
(* C8: generateSRT is deterministic: two calls with identical verse lists  *)
(* and identical preferences return identical documents, whatever requests *)
(* the server handled before or between them.                              *)
(***************************************************************************)
\* request r is a POST /process whose handler has called generateSRT
Generated(r) == reqs[r].route = "process" /\ reqs[r].srtContent # Undefined

\* the preferences argument of the call request r made
PreferencesArgument(r) == preferencesArgument(server, reqs[r].body)

C11_WrappedAt40 ==
  GenReturned => \A line \in LineSet(result.v) : Len(line) <= 40


(***************************************************************************)
(* C12: a POST /process whose body has no videoUrl, or whose verses are    *)
(* missing, not an array or empty, is answered 400 with success false in   *)
(* the step it arrives in: no id is drawn, no document is generated,       *)
(* nothing is uploaded, no job is created and jobsDB is unchanged.         *)
(***************************************************************************)
Rejected(body) ==
  \/ body.videoUrl = Undefined
  \/ body.verses = Undefined
  \/ body.verses.t # "array"
  \/ body.verses.v = <<>>

Arrives(r) == reqs[r].at = "idle" /\ reqs'[r].at # "idle"

C12_RejectedBeforeSynthesis ==
  [][\A r \in 1..MaxRequests :
       (Arrives(r) /\ reqs'[r].route = "process" /\ Rejected(reqs'[r].body)) =>
         /\ reqs'[r].at = "done"
         /\ reqs'[r].response.code = 400
         /\ reqs'[r].response.success = FALSE
         /\ reqs'[r].srtContent = Undefined
         /\ reqs'[r].jobId = 0
         /\ UNCHANGED <<jobsDB, s3, mediaConvert, uuids>>]_vars

C12_Witness ==
  \E r \in 1..MaxRequests :
    /\ reqs[r].route = "process"
    /\ reqs[r].body.verses = Arr(<<>>)
    /\ reqs[r].response # Undefined
    /\ reqs[r].response.code = 400
    /\ DOMAIN jobsDB # {}


Uploaded(r) == reqs[r].route = "process" /\ srtKeyOf(reqs[r].jobId) \in DOMAIN s3

\* the shift a body asks for through its subtitlePreferences alone
RequestedShift(body) ==
  IF IsObject(body.subtitlePreferences) /\ body.subtitlePreferences.subtitleOffset # Undefined
  THEN body.subtitlePreferences.subtitleOffset.v
  ELSE 0

ResolvedStart(verses, i) ==
  IF verses[i].startTime = Undefined THEN (i - 1) * 5000 ELSE verses[i].startTime.v
ResolvedEnd(verses, i) ==
  IF verses[i].endTime = Undefined THEN i * 5000 ELSE verses[i].endTime.v

C14_PreferencesOffsetShifts ==
  \A r \in 1..MaxRequests :
    (Uploaded(r) /\ reqs[r].body.subtitleOffset = Undefined) =>
      LET verses == reqs[r].body.verses.v
          shift == RequestedShift(reqs[r].body)
          tl == TimeLines(s3[srtKeyOf(reqs[r].jobId)].v)
      IN /\ Len(tl) = Len(verses)
         /\ \A i \in 1..Len(verses) :
              /\ Shows(StartField(tl[i]), ResolvedStart(verses, i) + shift)
              /\ Shows(EndField(tl[i]), ResolvedEnd(verses, i) + shift)


(***************************************************************************)
(* C15: a POST /process calls createJob only once its subtitle document is *)
(* in storage, and the caption source file of every submitted job is the   *)
(* key under which the submitting request uploaded its document.           *)
(***************************************************************************)
DocumentStored(r) ==
  /\ srtKeyOf(reqs[r].jobId) \in DOMAIN s3
  /\ s3[srtKeyOf(reqs[r].jobId)] = reqs[r].srtContent

\* request r is the one that submitted the MediaConvert job id
Submitted(r, id) ==
  /\ reqs[r].route = "process"
  /\ reqs[r].jobId \in DOMAIN jobsDB
  /\ jobsDB[reqs[r].jobId].mediaConvertJobId = id

C15_JobAfterUpload ==
  /\ \A r \in 1..MaxRequests : reqs[r].at = "createJob" => DocumentStored(r)
  /\ \A id \in DOMAIN mediaConvert :
       \E r \in 1..MaxRequests :
         /\ Submitted(r, id)
         /\ DocumentStored(r)
         /\ mediaConvert[id].Settings.SourceFile = srtKeyOf(reqs[r].jobId)

C15_Witness ==
  /\ Cardinality(DOMAIN mediaConvert) = 1
  /\ \E r \in 1..MaxRequests : reqs[r].at = "createJob"


(***************************************************************************)
(* C16: the answer GET /status gives for a stored job follows the remote   *)
(* status: COMPLETE gives progress 100 and an outputUrl, SUBMITTED gives   *)
(* progress 5, PROGRESSING progress 50, each with the status lower-cased;  *)
(* an outputUrl is in the answer exactly when the remote status is         *)
(* COMPLETE.                                                               *)
(***************************************************************************)
\* the status request r is answered in this step, and not by the catch block
Answered(r) ==
  /\ reqs[r].route = "status"
  /\ reqs[r].at \in {"getJob", "getSignedUrl"}
  /\ reqs'[r].at = "done"
  /\ reqs'[r].response.code = 200

C16_StatusReport ==
  [][\A r \in 1..MaxRequests :
       Answered(r) =>
         LET remote == mediaConvert[reqs[r].mediaConvertJobId].Status
             answer == reqs'[r].response
         IN /\ remote = "COMPLETE" =>
                 answer.progress = Num(100) /\ answer.status = "complete"
            /\ remote = "SUBMITTED" =>
                 answer.progress = Num(5) /\ answer.status = "submitted"
            /\ remote = "PROGRESSING" =>
                 answer.progress = Num(50) /\ answer.status = "progressing"
            /\ answer.outputUrl # Undefined <=> remote = "COMPLETE"]_vars


(***************************************************************************)
(* C17: jobsDB gains an entry only in the step in which a createJob        *)
(* succeeds, and the entry holds the id of the job just created with       *)
(* status 'PROCESSING'.  A POST /process that ends after validation        *)
(* without that answers 500 with success false and leaves jobsDB as it     *)
(* was; its jobId is not in jobsDB, and a GET /status for a jobId that is  *)
(* not in jobsDB answers 404.                                              *)
(***************************************************************************)
\* the POST /process request r, past its validation, ends in this step
Ends(r) ==
  /\ reqs[r].at \in {"putSrt", "fetch", "arrayBuffer", "putVideo", "createJob"}
  /\ reqs'[r].at = "done"

Failed(r) ==
  /\ reqs[r].route = "process"
  /\ reqs[r].at = "done"
  /\ reqs[r].response.code = 500

C17_EntryOnlyAfterCreateJob ==
  [][/\ \A j \in DOMAIN jobsDB' \ DOMAIN jobsDB :
          \E r \in 1..MaxRequests :
            /\ reqs[r].at = "createJob"
            /\ reqs[r].jobId = j
            /\ jobsDB'[j].mediaConvertJobId \in DOMAIN mediaConvert' \ DOMAIN mediaConvert
            /\ jobsDB'[j].status = "PROCESSING"
            /\ reqs'[r].response.code = 200
     /\ \A r \in 1..MaxRequests :
          /\ Ends(r) =>
               \/ reqs'[r].response.code = 200 /\ reqs[r].jobId \in DOMAIN jobsDB'
               \/ /\ reqs'[r].response.code = 500
                  /\ reqs'[r].response.success = FALSE
                  /\ UNCHANGED jobsDB
          /\ Failed(r)' => reqs'[r].jobId \notin DOMAIN jobsDB'
          /\ (Arrives(r) /\ reqs'[r].route = "status"
                /\ reqs'[r].param \notin DOMAIN jobsDB) =>
               reqs'[r].at = "done" /\ reqs'[r].response.code = 404]_vars

\* createJob failed for one request after both uploads, and the status of
\* its jobId was then asked for
C17_Witness ==
  \E r1 \in 1..MaxRequests, r2 \in 1..MaxRequests :
    /\ Failed(r1)
    /\ videoKeyOf(reqs[r1].jobId) \in DOMAIN s3
    /\ reqs[r2].route = "status"
    /\ reqs[r2].param = reqs[r1].jobId
    /\ reqs[r2].at = "done"
    /\ reqs[r2].response.code = 404


(***************************************************************************)
(* C18: whatever the interleaving of the handlers, an entry of jobsDB      *)
(* stays in jobsDB with the mediaConvertJobId it was created with, its     *)
(* status is 'PROCESSING' or 'COMPLETE' and never goes back from           *)
(* 'COMPLETE', it has an outputUrl exactly when its status is 'COMPLETE',  *)
(* and it changes only in a step of a request for that job.                *)
(***************************************************************************)
EntryOK(entry) ==
  /\ entry.status \in {"PROCESSING", "COMPLETE"}
  /\ entry.outputUrl # Undefined <=> entry.status = "COMPLETE"

\* a GET /status request for job j takes a step
StatusStepFor(j) ==
  \E r \in 1..MaxRequests :
    reqs[r].route = "status" /\ reqs[r].param = j /\ reqs'[r].at # reqs[r].at

C18_EntriesStable ==
  [][/\ \A j \in DOMAIN jobsDB' : EntryOK(jobsDB'[j])
     /\ \A j \in DOMAIN jobsDB :
          /\ j \in DOMAIN jobsDB'
          /\ jobsDB'[j].mediaConvertJobId = jobsDB[j].mediaConvertJobId
          /\ jobsDB[j].status = "COMPLETE" => jobsDB'[j].status = "COMPLETE"
          /\ jobsDB'[j] # jobsDB[j] => StatusStepFor(j)]_vars

\* one status request has marked the job COMPLETE while another request for
\* the same job is suspended at an await
C18_Witness ==
  \E r1 \in 1..MaxRequests, r2 \in 1..MaxRequests :
    /\ reqs[r1].route = "status" /\ reqs[r1].at = "done"
    /\ reqs[r1].response.status = "complete"
    /\ jobsDB[reqs[r1].param].status = "COMPLETE"
    /\ reqs[r2].route = "status" /\ reqs[r2].param = reqs[r1].param
    /\ reqs[r2].at = "getSignedUrl"


(***************************************************************************)
(* C19: the four copies of generateSRT return the same string for the      *)
(* same verse list and preferences, whether the preferences set lang,      *)
(* display or both.                                                        *)
(***************************************************************************)
C19_CopiesEquivalent ==
  (fn = "generateSRT" /\ pc = "returned") =>
    /\ generateSRT_2(callVerses, callPreferences) = result
    /\ generateSRT_part_000(callVerses, callPreferences) = result
    /\ generateSRT_part_001(callVerses, callPreferences) = result


C21_NoEmptyLineBeforeTranslation ==
  GenReturned =>
    LET ls == Lines(result.v)
    IN \A k \in 2..Len(ls) :
         ls[k] \in TranslationTexts => ls[k - 1] # <<>>

====
